---- MODULE Spec2Model ----
(***************************************************************************)
(* Model of the research orchestrator:                                     *)
(*   - AutonomousResearchOrchestrator.research and                         *)
(*     SupervisorAgent.plan_workflow / execute_workflow with the four      *)
(*     agents (src/src/...), each backed by a MemoryManager collection;    *)
(*   - ChromaMemory.store_papers / search_papers (src/tools/...).          *)
(* External collaborators (completion service, vector index, retrieval     *)
(* client) are nondeterministic: every call either answers or raises.      *)
(***************************************************************************)
EXTENDS Integers, Sequences, FiniteSets, TLC

(* ------------------------------ bounds -------------------------------- *)

\* number of research() calls one orchestrator serves
MaxRequests == 2
\* number of ChromaMemory calls made on one instance
MaxCalls == 2

(* ------------------------- program constants -------------------------- *)

\* supervisor.py:114  [:200]
CharCap == 200
\* memory_manager.py:32  max_docs default (memory_agent.py:27 passes 5 too)
MaxDocs == 5
\* memory_agent.py:31-39, the no-context narrative without the task text
NoContextNarrativeLen == 286
\* memory_agent.py:41-49, the found-context narrative without task and context
ContextNarrativeLen == 164
\* memory_manager.py:40  "Context i: "
ContextPrefixLen == 11
\* memory_manager.py:42  "\n\n"
JoinSepLen == 2
\* memory_agent.py:58  "Query: "
QueryPrefixLen == 7
\* memory_manager.py:36  "No relevant context found."
NoContextLen == 26

Kinds == {"memory", "research", "analysis", "summary"}

\* the request texts tried: one short question and one topic
Requests == {"what is federated learning", "mcp server protocol"}

\* len(request)
TaskLen(task) ==
  CASE task = "what is federated learning" -> 26
    [] task = "mcp server protocol" -> 19
    [] task = "Create final comprehensive report" -> 33
    [] OTHER -> 0

Min(a, b) == IF a < b THEN a ELSE b

(* ------------------------------- text --------------------------------- *)
\* A text is abstracted to who wrote it and how many characters it has.
Text(by, len) == [by |-> by, len |-> len]
EmptyText == Text("none", 0)

\* s[:n]
\* a slice that keeps the whole text
Truncate_KeepsAll(t, n) == t

Truncate(t, n) == Text(t.by, Min(t.len, n))

\* lengths a completion text may have: below and above the cap
TextLens == {CharCap - 1, CharCap + 1}

(* ----------------------------- planner -------------------------------- *)
\* Phrases a planner response is made of, and response.content.lower() of each.
Phrases ==
  { "ok", "Memory", "RESEARCH papers", "meta-analysis", "Summary",
    "[\"memory\", \"research\", \"summary\"]",
    "[\"memory\", \"research\", \"analysis\", \"summary\"]" }

lower(p) ==
  CASE p = "Memory" -> "memory"
    [] p = "RESEARCH papers" -> "research papers"
    [] p = "Summary" -> "summary"
    [] OTHER -> p

\* kw in p, for a lower-cased phrase p
InPhrase(kw, p) ==
  CASE p = "memory" -> kw = "memory"
    [] p = "research papers" -> kw = "research"
    [] p = "meta-analysis" -> kw = "analysis"
    [] p = "summary" -> kw = "summary"
    [] p = "[\"memory\", \"research\", \"summary\"]" -> kw \in {"memory", "research", "summary"}
    [] p = "[\"memory\", \"research\", \"analysis\", \"summary\"]" -> kw \in Kinds
    [] OTHER -> FALSE

\* the planner responses tried: text naming no kind, text naming one kind, the
\* 3-stage and the 4-stage list, and two that name kinds in upper case and in
\* another order than the pipeline's
Responses ==
  { <<"ok">>, <<"meta-analysis">>,
    <<"[\"memory\", \"research\", \"summary\"]">>,
    <<"[\"memory\", \"research\", \"analysis\", \"summary\"]">>,
    <<"Summary", "Memory">>, <<"meta-analysis", "RESEARCH papers">> }

\* kw in response.content.lower()
Contains(content, kw) == \E i \in 1..Len(content) : InPhrase(kw, lower(content[i]))

DefaultWorkflow == <<"memory", "research", "analysis", "summary">>

plan_workflow_NoDefault(content) ==
  (IF Contains(content, "memory") THEN <<"memory">> ELSE <<>>)
  \o (IF Contains(content, "research") THEN <<"research">> ELSE <<>>)
  \o (IF Contains(content, "analysis") THEN <<"analysis">> ELSE <<>>)
  \o (IF Contains(content, "summary") THEN <<"summary">> ELSE <<>>)

plan_workflow_SkipsAnalysis(content) ==
  LET workflow ==
        (IF Contains(content, "memory") THEN <<"memory">> ELSE <<>>)
        \o (IF Contains(content, "research") THEN <<"research">> ELSE <<>>)
        \o (IF Contains(content, "summary") THEN <<"summary">> ELSE <<>>)
  IN IF workflow = <<>> THEN DefaultWorkflow ELSE workflow

\* SupervisorAgent.plan_workflow, from the planner's response text on
plan_workflow(content) ==
  LET workflow ==
        (IF Contains(content, "memory") THEN <<"memory">> ELSE <<>>)
        \o (IF Contains(content, "research") THEN <<"research">> ELSE <<>>)
        \o (IF Contains(content, "analysis") THEN <<"analysis">> ELSE <<>>)
        \o (IF Contains(content, "summary") THEN <<"summary">> ELSE <<>>)
  IN IF workflow = <<>> THEN DefaultWorkflow ELSE workflow

(* ------------------------- workflow state ----------------------------- *)
VARIABLES
  pc,          \* where research()/execute_workflow() is
  reqNo,       \* research() calls made so far
  request,     \* the query of the current call
  response,    \* the planner's response content
  workflow,    \* execute_workflow's local workflow
  idx,         \* position of the for loop in workflow (1-based)
  results,     \* execute_workflow's local results list
  running,     \* the agent whose execute is on the stack, or "none"
  data,        \* the context argument handed to the running agent
  context,     \* the running agent's retrieved context
  sources,     \* the research agent's arxiv/web results
  llmOut,      \* response.content of the running agent's completion
  exc,         \* the exception in flight or caught, NoExc if none
  ret,         \* what research() gave its caller
  events,      \* history: agent starts, returns and raises of this request
  llmCalls,    \* history: completion calls made for this request
  handed,      \* history: the previous_results contexts handed to analysis
  agents,      \* the supervisor's lazily constructed agents (_x_agent is not None)
  mem,         \* the MemoryManager collections (persist across requests)
  memBefore    \* history: the collections when the current request began

wfvars == <<pc, reqNo, request, response, workflow, idx, results, running, data,
            context, sources, llmOut, exc, ret, events, llmCalls, handed, agents, mem,
            memBefore>>

MemCollections == {"context_memory", "research_memory", "analysis_memory", "summary_memory"}

\* every agent on MemoryManager's default collection
CollectionOf_Default(kind) == "research_memory"

\* the collection each agent constructs its MemoryManager with
CollectionOf(kind) ==
  CASE kind = "memory" -> "context_memory"
    [] kind = "research" -> "research_memory"
    [] kind = "analysis" -> "analysis_memory"
    [] kind = "summary" -> "summary_memory"

NoExc == [site |-> "none", agent |-> "none"]
NoRet == [raised |-> FALSE, value |-> [status |-> "pending"]]
NoData == [given |-> FALSE]
NoContext == [text |-> "unset", parts |-> <<>>]
NoSources == [arxiv |-> "unset", web |-> "unset"]
ReportTask == "Create final comprehensive report"

(* --------------------------- MemoryManager ---------------------------- *)
\* retrieve_similar: the index answers with min(k, n) of the stored documents
RetrieveChoices(docs, k) ==
  { S \in SUBSET (1..Len(docs)) : Cardinality(S) = Min(k, Len(docs)) }

RECURSIVE Pick(_, _, _)
Pick(docs, S, i) ==
  IF i > Len(docs) THEN <<>>
  ELSE (IF i \in S THEN <<docs[i].page_content>> ELSE <<>>) \o Pick(docs, S, i + 1)

NoContextText == "No relevant context found."

\* get_context, from the retrieved documents on
get_context(parts) ==
  IF parts = <<>> THEN [text |-> NoContextText, parts |-> <<>>]
  ELSE [text |-> "Context 1: ...", parts |-> parts]

\* A stored document's page_content is abstracted to what was written: the
\* memory agent's "Query: <task>" line, or the completion text of an agent.
QueryContent(task) == [kind |-> "query", task |-> task]
CompletionContent(text) == [kind |-> "completion", by |-> text.by]

\* len(doc.page_content) of a "Query: <task>" document
QueryLen(content) == QueryPrefixLen + TaskLen(content.task)

\* len("\n\n".join(context_parts)) over "Query: <task>" documents
RECURSIVE PartsLen(_)
PartsLen(parts) ==
  IF parts = <<>> THEN 0
  ELSE ContextPrefixLen + QueryLen(Head(parts))
       + (IF Len(parts) > 1 THEN JoinSepLen ELSE 0) + PartsLen(Tail(parts))

ContextLen(c) == IF c.text = NoContextText THEN NoContextLen ELSE PartsLen(c.parts)

\* a store_research that writes nothing
store_research_WritesNothing(docs, content, metadata) == docs

\* store_research: one Document appended to the collection
store_research(docs, content, metadata) ==
  Append(docs, [page_content |-> content, metadata |-> metadata])

(* ------------------------------ agents -------------------------------- *)
\* MemoryAgent.execute's result
\* a memory result that reports context whatever was retrieved
MemoryResult_AlwaysHasContext(task, c) ==
  LET fresh == c.text = NoContextText
  IN [agent |-> "memory", task |-> task,
      context_analysis |->
        Text("memory", IF fresh THEN NoContextNarrativeLen + TaskLen(task)
                       ELSE ContextNarrativeLen + TaskLen(task) + ContextLen(c)),
      has_context |-> TRUE]

MemoryResult(task, c) ==
  LET fresh == c.text = NoContextText
  IN [agent |-> "memory", task |-> task,
      context_analysis |->
        Text("memory", IF fresh THEN NoContextNarrativeLen + TaskLen(task)
                       ELSE ContextNarrativeLen + TaskLen(task) + ContextLen(c)),
      has_context |-> ~fresh]

ResearchResult(task, content, src) ==
  [agent |-> "research", task |-> task, findings |-> content, sources |-> src]

AnalysisResult(task, content, analysis_data) ==
  [agent |-> "analysis", task |-> task, analysis |-> content,
   processed_data |-> analysis_data]

SummaryResult(task, content, safe_content) ==
  [agent |-> "summary", task |-> task, summary |-> content,
   source_content |-> safe_content]

\* r.get("findings", r.get("context_analysis", ""))
FindingsOrContext(r) ==
  IF "findings" \in DOMAIN r THEN r.findings
  ELSE IF "context_analysis" \in DOMAIN r THEN r.context_analysis
  ELSE EmptyText

safe_results_DropsFirst(rs) ==
  [i \in 1..(Len(rs) - 1) |->
     [agent |-> rs[i + 1].agent, summary |-> Truncate(FindingsOrContext(rs[i + 1]), CharCap)]]

\* execute_workflow's safe_results comprehension
safe_results(rs) ==
  [i \in 1..Len(rs) |->
     [agent |-> rs[i].agent, summary |-> Truncate(FindingsOrContext(rs[i]), CharCap)]]

CountOf(rs, kind) == Cardinality({ i \in 1..Len(rs) : rs[i].agent = kind })

RECURSIVE findings_summary(_)
findings_summary(rs) ==
  IF rs = <<>> THEN <<>>
  ELSE LET r == Head(rs)
       IN (IF r.agent = "research"
             THEN << [label |-> "Research: ",
                      excerpt |-> Truncate(IF "findings" \in DOMAIN r THEN r.findings
                                           ELSE Text("none", 11), CharCap)] >>
           ELSE IF r.agent = "analysis"
             THEN << [label |-> "Analysis: ",
                      excerpt |-> Truncate(IF "analysis" \in DOMAIN r THEN r.analysis
                                           ELSE Text("none", 11), CharCap)] >>
           ELSE <<>>)
          \o findings_summary(Tail(rs))

\* a projection that counts the summary step itself
safe_content_CountsItself(all_results) ==
  [research_count |-> CountOf(all_results, "research"),
   analysis_count |-> CountOf(all_results, "analysis"),
   memory_count |-> CountOf(all_results, "memory"),
   total_agents |-> Len(all_results) + 1,
   findings_summary |-> findings_summary(all_results)]

\* SummaryAgent.create_final_report's safe_content
safe_content(all_results) ==
  [research_count |-> CountOf(all_results, "research"),
   analysis_count |-> CountOf(all_results, "analysis"),
   memory_count |-> CountOf(all_results, "memory"),
   total_agents |-> Len(all_results),
   findings_summary |-> findings_summary(all_results)]

(* ----------------------------- supervisor ----------------------------- *)
\* the agent the if/elif chain of execute_workflow runs for a planned name
Dispatch_SummaryForAnalysis(agent_name) ==
  IF agent_name = "analysis" THEN "summary" ELSE agent_name

Dispatch(agent_name) ==
  CASE agent_name = "memory" -> "memory"
    [] agent_name = "research" -> "research"
    [] agent_name = "analysis" -> "analysis"
    [] agent_name = "summary" -> "summary"

\* the context argument the supervisor builds for an agent
ContextFor(kind, rs) ==
  CASE kind = "analysis" -> [given |-> TRUE, previous_results |-> safe_results(rs)]
    [] kind = "summary" -> [given |-> TRUE, safe_content |-> safe_content(rs)]
    [] OTHER -> NoData

\* the task each agent's execute is called with
TaskFor(kind, req) == IF kind = "summary" THEN ReportTask ELSE req

CompletedObject_DropsLast(req, wf, rs) ==
  [request |-> req, workflow |-> wf,
   results |-> SubSeq(rs, 1, Len(rs) - 1), status |-> "completed"]

\* execute_workflow's return value
CompletedObject(req, wf, rs) ==
  [request |-> req, workflow |-> wf, results |-> rs, status |-> "completed"]

FailureObject_WithPartialResults(e, query, rs) ==
  [error |-> e, status |-> "failed", query |-> query, results |-> rs]

\* the object research() builds in its except clause (rs: the results gathered
\* so far, which the clause has no access to)
FailureObject(e, query, rs) ==
  [error |-> e, status |-> "failed", query |-> query]

Event(ev, agent) == [ev |-> ev, agent |-> agent]

\* An exception leaves execute_workflow (which has no handler) for research().
Propagate_SkipsStage(site) ==
  /\ exc' = [site |-> site, agent |-> running]
  /\ events' = Append(events, Event("raise", running))
  /\ pc' = "loop"
  /\ idx' = idx + 1
  /\ running' = "none"

Propagate(site) ==
  /\ exc' = [site |-> site, agent |-> running]
  /\ events' = Append(events, Event("raise", running))
  /\ pc' = "raised"
  /\ UNCHANGED <<idx, running>>

(* ---------------------------- ChromaMemory ---------------------------- *)
VARIABLES
  client,       \* ChromaMemory.client: the kind of client __init__ obtained
  db,           \* the chroma client's collections: name -> records, in insertion order
  collections,  \* ChromaMemory.collections: the names whose handle is cached
  toolCollections, \* the same cache of the memory_store tool's own ChromaMemory
  searchToolCollections, \* and of the memory_search tool's own ChromaMemory
  existing,     \* what collection.add does with an id the collection already has
  calls,        \* ChromaMemory calls made so far
  stale,        \* the cached handles of the tools whose collection was deleted
  before,       \* history: db when the last call started
  last          \* history: the last call, its arguments and what it gave

stvars == <<client, db, collections, toolCollections, searchToolCollections, existing,
            stale, calls, before, last>>

(* ------------------- the arXiv client (tools/arxiv_api.py) ------------- *)
VARIABLES
  now,                \* time.time(), in seconds
  last_request_time,  \* of the ArxivAPI instance the callers share
  callerPc,           \* where each caller is in its search
  entry,              \* the entry point each caller came through
  seen,               \* the last_request_time each caller read
  wake,               \* when each caller's time.sleep ends
  outbound            \* history: the outbound search calls, in order

axvars == <<now, last_request_time, callerPc, entry, seen, wake, outbound>>

CollectionNames == {"research_papers", "papers"}

\* hashlib.md5(title.encode()).hexdigest()
md5(title) ==
  CASE title = "t1" -> "md5(t1)"
    [] title = "t2" -> "md5(t2)"
    [] OTHER -> "md5()"

\* The papers tried: p1 twice with different content, two papers without an
\* id that share a title, and an entry that is not a dict.
Paper(id, title, summary) == [dict |-> TRUE, id |-> id, title |-> title, summary |-> summary]
NotADict == [dict |-> FALSE, id |-> "", title |-> "", summary |-> ""]
Papers ==
  { Paper("p1", "t1", "s1"), Paper("p1", "t1", "s2"),
    Paper("", "t2", "s1"), Paper("", "t2", "s2"), NotADict }

\* The batches tried: empty, each paper alone, two distinct papers, the same id
\* twice (given, and resolved from the title), and a batch with a bad entry.
Batches ==
  {<<>>} \cup { <<p>> : p \in Papers }
  \cup { <<Paper("p1", "t1", "s1"), Paper("", "t2", "s1")>>,
         <<Paper("p1", "t1", "s1"), Paper("p1", "t1", "s2")>>,
         <<Paper("", "t2", "s1"), Paper("", "t2", "s2")>>,
         <<Paper("p1", "t1", "s1"), NotADict>> }

\* what the outside world does during one call
Faults == {"none", "client", "index"}

\* f"{title}\n\n{summary}"
doc_text(paper) == [title |-> paper.title, summary |-> paper.summary]

\* store_papers lines 98-102
paper_id(paper) == IF paper.id # "" THEN paper.id ELSE md5(paper.title)

Ids(recs) == { recs[i].id : i \in 1..Len(recs) }

RecordOf(paper) == [id |-> paper_id(paper), document |-> doc_text(paper)]

\* the for loop of store_papers: paper.get raises on an entry that is not a dict
BuildBatch(papers) ==
  IF \E i \in 1..Len(papers) : ~papers[i].dict
    THEN [exc |-> TRUE, recs |-> <<>>]
    ELSE [exc |-> FALSE, recs |-> [i \in 1..Len(papers) |-> RecordOf(papers[i])]]

RECURSIVE AddNew(_, _)
AddNew(recs, new) ==
  IF new = <<>> THEN recs
  ELSE AddNew(IF Head(new).id \in Ids(recs) THEN recs ELSE Append(recs, Head(new)),
              Tail(new))

\* collection.add(documents, metadatas, ids) of the vector database: an empty or
\* duplicated id list is rejected; an id the collection already has is ignored
\* (or, with an older library, rejected); a failing index rejects the call.
chroma_add(recs, new, onExisting, indexOk) ==
  IF \/ ~indexOk
     \/ new = <<>>
     \/ \E i, j \in 1..Len(new) : i # j /\ new[i].id = new[j].id
     \/ onExisting = "raise" /\ \E i \in 1..Len(new) : new[i].id \in Ids(recs)
    THEN [exc |-> TRUE, recs |-> recs]
    ELSE [exc |-> FALSE, recs |-> AddNew(recs, new)]

\* ChromaMemory._initialize_client: the persistent client, or the in-memory
\* one when the persistent one cannot be opened
initialize_client(persistentOk) == IF persistentOk THEN "persistent" ELSE "memory"

\* a get_or_create_collection that makes the collection anew on every call
get_or_create_collection_Recreates(d, cache, name, clientOk) ==
  IF ~clientOk THEN [handle |-> FALSE, db |-> d, collections |-> cache]
  ELSE [handle |-> TRUE,
        db |-> (name :> <<>>) @@ d,
        collections |-> cache \cup {name}]

\* ChromaMemory.get_or_create_collection: [handle, db, collections]
get_or_create_collection(d, cache, name, clientOk) ==
  IF name \in cache THEN [handle |-> TRUE, db |-> d, collections |-> cache]
  ELSE IF ~clientOk THEN [handle |-> FALSE, db |-> d, collections |-> cache]
  ELSE [handle |-> TRUE,
        db |-> IF name \in DOMAIN d THEN d ELSE (name :> <<>>) @@ d,
        collections |-> cache \cup {name}]

\* the records of a collection that may not exist yet
Docs(d, name) == IF name \in DOMAIN d THEN d[name] ELSE <<>>

\* ChromaMemory.store_papers: [raised, value, db, collections]
store_papers(d, cache, papers, name, onExisting, clientOk, indexOk) ==
  LET g == get_or_create_collection(d, cache, name, clientOk)
      b == BuildBatch(papers)
      a == chroma_add(Docs(g.db, name), b.recs, onExisting, indexOk)
  IN IF ~g.handle
       THEN [raised |-> FALSE, value |-> FALSE, db |-> g.db, collections |-> g.collections]
     ELSE IF b.exc \/ a.exc
       THEN [raised |-> FALSE, value |-> FALSE, db |-> g.db, collections |-> g.collections]
     ELSE [raised |-> FALSE, value |-> TRUE,
           db |-> [g.db EXCEPT ![name] = a.recs], collections |-> g.collections]

\* results of collection.query: min(n, count) of the records
QueryChoices(recs, n) ==
  { S \in SUBSET (1..Len(recs)) : Cardinality(S) = Min(n, Len(recs)) }

RECURSIVE Hits(_, _, _)
Hits(recs, S, i) ==
  IF i > Len(recs) THEN <<>>
  ELSE (IF i \in S THEN <<recs[i]>> ELSE <<>>) \o Hits(recs, S, i + 1)

\* the distances the index reports, in tenths; a distance may exceed 1
Distances == {0, 5, 15}

\* the 1 of "1 - distance", in tenths
One == 10

\* results of collection.query in the order the index gives them, nearest
\* first: ids, documents and distances of min(n, count) distinct records
IndexAnswers(recs, n) ==
  UNION { LET h == Hits(recs, S, 1)
              k == Len(h)
          IN { [i \in 1..k |-> [id |-> h[x[1][i]].id, document |-> h[x[1][i]].document,
                                distance |-> x[2][i]]] :
                 x \in { y \in [1..k -> 1..k] \X [1..k -> Distances] :
                           /\ \A i, j \in 1..k : i # j => y[1][i] # y[1][j]
                           /\ \A i, j \in 1..k : i < j => y[2][i] <= y[2][j] } }
        : S \in QueryChoices(recs, n) }

\* a paper dict that reports the distance itself as the score
FormatHit_ScoreIsDistance(hit) ==
  [id |-> hit.id, title |-> hit.document.title, summary |-> hit.document.summary,
   similarity_score |-> hit.distance]

\* the paper dict search_papers formats for one hit
FormatHit(hit) ==
  [id |-> hit.id, title |-> hit.document.title, summary |-> hit.document.summary,
   similarity_score |-> One - hit.distance]

\* ChromaMemory.search_papers, given the hits the index answers with
search_papers(d, cache, name, hits, clientOk, indexOk) ==
  LET g == get_or_create_collection(d, cache, name, clientOk)
  IN IF ~g.handle \/ ~indexOk
       THEN [raised |-> FALSE, value |-> <<>>, db |-> g.db, collections |-> g.collections]
     ELSE [raised |-> FALSE, value |-> [i \in 1..Len(hits) |-> FormatHit(hits[i])],
           db |-> g.db, collections |-> g.collections]

\* hashlib.md5(f"{query}{datetime.now().isoformat()}"): one id per query and
\* moment; the empty string stands for "no session stored"
session_id(query, at) == [md5 |-> <<query, at>>]
NoSessionId == [md5 |-> <<>>]

SessionsCollection == "research_sessions"

\* ChromaMemory.store_research_session: [raised, value, db, collections]
store_research_session(d, cache, query, analysis, at, onExisting, clientOk, indexOk) ==
  LET g == get_or_create_collection(d, cache, SessionsCollection, clientOk)
      doc == [id |-> session_id(query, at),
              document |-> [query |-> query, analysis |-> analysis]]
      a == chroma_add(Docs(g.db, SessionsCollection), <<doc>>, onExisting, indexOk)
  IN IF ~g.handle \/ a.exc
       THEN [raised |-> FALSE, value |-> NoSessionId, db |-> g.db,
             collections |-> g.collections]
     ELSE [raised |-> FALSE, value |-> doc.id,
           db |-> [g.db EXCEPT ![SessionsCollection] = a.recs],
           collections |-> g.collections]

\* ResearchOrchestrator.execute_comprehensive_research, given how crew.kickoff
\* ended: [raised, value, db, collections]
execute_comprehensive_research(d, cache, query, kickoff, at, onExisting, clientOk, indexOk) ==
  IF kickoff = "raise"
    THEN [raised |-> FALSE, db |-> d, collections |-> cache,
          value |-> [status |-> "error", query |-> query, error |-> "kickoff",
                     result |-> "None"]]
  ELSE LET r == store_research_session(d, cache, query, "result", at, onExisting,
                                       clientOk, indexOk)
       IN [raised |-> FALSE, db |-> r.db, collections |-> r.collections,
           value |-> [status |-> "success", query |-> query, result |-> "result",
                      session_id |-> r.value, tasks_completed |-> 4,
                      research_type |-> "comprehensive"]]

\* what the memory_store tool is handed as papers_json: text that is not
\* JSON, JSON that is not a list, something that is not text, or a JSON list
\* (empty, of one paper, of one paper stored before with other content, or
\* with an entry that is not an object)
JsonInputs ==
  { [kind |-> "invalid", papers |-> <<>>], [kind |-> "object", papers |-> <<>>],
    [kind |-> "not_text", papers |-> <<>>] }
  \cup { [kind |-> "list", papers |-> b] :
           b \in { <<>>, <<Paper("p1", "t1", "s1")>>, <<Paper("p1", "t1", "s2")>>,
                   <<Paper("p1", "t1", "s1"), NotADict>> } }

ToolReply(msg, n) == [msg |-> msg, n |-> n]

\* a tool that reports success whatever store_papers returned
memory_store_tool_AlwaysSuccess(d, cache, input, name, onExisting, clientOk, indexOk) ==
  LET r == store_papers(d, cache, input.papers, name, onExisting, clientOk, indexOk)
  IN [raised |-> FALSE, stored |-> IF r.value THEN "True" ELSE "False",
      db |-> r.db, collections |-> r.collections,
      value |-> ToolReply("Successfully stored", Len(input.papers))]

\* memory_store_tool: [raised, value, stored, db, collections]; stored is what
\* store_papers returned, "not called" when it was not reached
memory_store_tool(d, cache, input, name, onExisting, clientOk, indexOk) ==
  CASE input.kind = "invalid" ->
         [raised |-> FALSE, stored |-> "not called", db |-> d, collections |-> cache,
          value |-> ToolReply("Error: Invalid JSON format for papers_json", 0)]
    [] input.kind = "not_text" ->
         [raised |-> FALSE, stored |-> "not called", db |-> d, collections |-> cache,
          value |-> ToolReply("Error storing papers", 0)]
    [] input.kind = "object" ->
         [raised |-> FALSE, stored |-> "not called", db |-> d, collections |-> cache,
          value |-> ToolReply("Error: papers_json must be a JSON list of paper objects", 0)]
    [] input.kind = "list" ->
         LET r == store_papers(d, cache, input.papers, name, onExisting, clientOk, indexOk)
         IN [raised |-> FALSE, stored |-> IF r.value THEN "True" ELSE "False",
             db |-> r.db, collections |-> r.collections,
             value |-> IF r.value
                         THEN ToolReply("Successfully stored", Len(input.papers))
                         ELSE ToolReply("Failed to store papers in memory", 0)]

\* memory_search_tool line 348: n_results=5
ToolNResults == 5

\* a search tool that never finds anything
memory_search_tool_NoneFound(d, cache, name, hits, clientOk, indexOk) ==
  LET r == search_papers(d, cache, name, hits, clientOk, indexOk)
  IN [raised |-> FALSE, papers |-> r.value, db |-> r.db, collections |-> r.collections,
      value |-> ToolReply("No papers found in memory for query", 0)]

\* memory_search_tool: [raised, value, papers, db, collections]; papers is what
\* search_papers returned
memory_search_tool(d, cache, name, hits, clientOk, indexOk) ==
  LET r == search_papers(d, cache, name, hits, clientOk, indexOk)
  IN [raised |-> FALSE, papers |-> r.value, db |-> r.db, collections |-> r.collections,
      value |-> IF r.value = <<>>
                  THEN ToolReply("No papers found in memory for query", 0)
                  ELSE ToolReply("Found similar papers in memory", Len(r.value))]

NoCall == [name |-> "none"]

\* collection.add on an id the collection has: current libraries ignore the
\* record, older ones reject the call
ExistingIdPolicies == {"ignore", "raise"}

StoreInit ==
  /\ \E persistentOk \in BOOLEAN : client = initialize_client(persistentOk)
  /\ db = <<>>
  /\ collections = {}
  /\ toolCollections = {}
  /\ searchToolCollections = {}
  /\ existing \in ExistingIdPolicies
  /\ stale = {}
  /\ calls = 0
  /\ before = <<>>
  /\ last = NoCall

StorePapers ==
  /\ calls < MaxCalls
  /\ \E papers \in Batches, name \in CollectionNames, fault \in Faults :
       LET r == store_papers(db, collections, papers, name, existing,
                             fault # "client", fault # "index")
       IN /\ db' = r.db
          /\ collections' = r.collections
          /\ last' = [name |-> "store_papers", collection |-> name, papers |-> papers,
                      fault |-> fault, raised |-> r.raised, value |-> r.value]
  /\ calls' = calls + 1
  /\ UNCHANGED stale
  /\ before' = db
  /\ UNCHANGED <<client, toolCollections, searchToolCollections, existing, wfvars, axvars>>

NResults == {1, 10}

SearchPapers ==
  /\ calls < MaxCalls
  /\ \E name \in CollectionNames, n \in NResults, fault \in Faults :
       \E hits \in IF fault = "index" THEN {<<>>} ELSE IndexAnswers(Docs(db, name), n) :
         LET r == search_papers(db, collections, name, hits,
                                fault # "client", fault # "index")
         IN /\ db' = r.db
            /\ collections' = r.collections
            /\ last' = [name |-> "search_papers", collection |-> name, n_results |-> n,
                        fault |-> fault, hits |-> hits, raised |-> r.raised,
                        value |-> r.value]
  /\ calls' = calls + 1
  /\ UNCHANGED stale
  /\ before' = db
  /\ UNCHANGED <<client, toolCollections, searchToolCollections, existing, wfvars, axvars>>

\* one run of the crew's comprehensive workflow; the clock of the session id
\* moves with every call
ExecuteComprehensiveResearch ==
  /\ calls < MaxCalls
  /\ \E query \in Requests, kickoff \in {"ok", "raise"}, fault \in Faults :
       LET r == execute_comprehensive_research(db, collections, query, kickoff, calls,
                                               existing, fault # "client", fault # "index")
       IN /\ db' = r.db
          /\ collections' = r.collections
          /\ last' = [name |-> "execute_comprehensive_research", query |-> query,
                      kickoff |-> kickoff, fault |-> fault, raised |-> r.raised,
                      value |-> r.value]
  /\ calls' = calls + 1
  /\ UNCHANGED stale
  /\ before' = db
  /\ UNCHANGED <<client, toolCollections, searchToolCollections, existing, wfvars, axvars>>

\* the memory_store tool is called; it works through its own ChromaMemory
MemoryStoreTool ==
  /\ calls < MaxCalls
  /\ \E input \in JsonInputs, name \in CollectionNames, fault \in Faults :
       LET gone == <<"memory_store", name>> \in stale
           r == memory_store_tool(db, toolCollections, input, name, existing,
                                  fault # "client", fault # "index" /\ ~gone)
       IN /\ db' = r.db
          /\ toolCollections' = r.collections
          /\ last' = [name |-> "memory_store", collection |-> name, input |-> input,
                      fault |-> fault, gone |-> gone, raised |-> r.raised,
                      stored |-> r.stored, value |-> r.value]
  /\ calls' = calls + 1
  /\ UNCHANGED stale
  /\ before' = db
  /\ UNCHANGED <<client, collections, searchToolCollections, existing, wfvars, axvars>>

\* get_or_create_collection is called for a name
GetOrCreateCollection ==
  /\ calls < MaxCalls
  /\ \E name \in CollectionNames, fault \in Faults :
       LET g == get_or_create_collection(db, collections, name, fault # "client")
       IN /\ db' = g.db
          /\ collections' = g.collections
          /\ last' = [name |-> "get_or_create_collection", collection |-> name,
                      fault |-> fault, cached |-> name \in collections,
                      raised |-> FALSE, value |-> g.handle]
  /\ calls' = calls + 1
  /\ UNCHANGED stale
  /\ before' = db
  /\ UNCHANGED <<client, toolCollections, searchToolCollections, existing, wfvars, axvars>>

\* the memory_search tool is called; it works through its own ChromaMemory
MemorySearchTool ==
  /\ calls < MaxCalls
  /\ \E name \in CollectionNames, fault \in Faults :
       \E hits \in IF fault = "index" \/ <<"memory_search", name>> \in stale THEN {<<>>}
                   ELSE IndexAnswers(Docs(db, name), ToolNResults) :
         LET gone == <<"memory_search", name>> \in stale
             r == memory_search_tool(db, searchToolCollections, name, hits,
                                     fault # "client", fault # "index" /\ ~gone)
         IN /\ db' = r.db
            /\ searchToolCollections' = r.collections
            /\ last' = [name |-> "memory_search", collection |-> name, fault |-> fault,
                        gone |-> gone, hits |-> hits, raised |-> r.raised,
                        papers |-> r.papers, value |-> r.value]
  /\ calls' = calls + 1
  /\ UNCHANGED stale
  /\ before' = db
  /\ UNCHANGED <<client, collections, toolCollections, existing, wfvars, axvars>>

\* how one step of a crew entry point ends
StepOutcomes == {"ok", "raise"}

\* the except branch of the entry points that take a query
ErrorDict(query, e) ==
  [status |-> "error", query |-> query, error |-> e, result |-> "None"]

\* an entry point whose except branch re-raises
quick_search_Reraises(query, search) ==
  IF search = "raise"
    THEN [raised |-> TRUE, value |-> "execute_comprehensive_search"]
  ELSE [raised |-> FALSE,
        value |-> [status |-> "success", query |-> query, result |-> "search_results",
                   type |-> "quick_search"]]

\* ResearchOrchestrator.quick_search, given how the search ended
quick_search(query, search) ==
  IF search = "raise"
    THEN [raised |-> FALSE, value |-> ErrorDict(query, "execute_comprehensive_search")]
  ELSE [raised |-> FALSE,
        value |-> [status |-> "success", query |-> query, result |-> "search_results",
                   type |-> "quick_search"]]

\* ResearchOrchestrator.execute_research, given how crew.kickoff ended
execute_research(query, kickoff) ==
  IF kickoff = "raise"
    THEN [raised |-> FALSE, value |-> ErrorDict(query, "kickoff")]
  ELSE [raised |-> FALSE,
        value |-> [status |-> "success", query |-> query, result |-> "result",
                   tasks_completed |-> 2]]

\* ResearchOrchestrator.execute_quick_research: search, analysis, summary in
\* this order; the first that raises ends the try block
execute_quick_research(query, search, analysis, summary) ==
  IF search = "raise"
    THEN [raised |-> FALSE, value |-> ErrorDict(query, "execute_comprehensive_search")]
  ELSE IF analysis = "raise"
    THEN [raised |-> FALSE, value |-> ErrorDict(query, "analyze_papers_content")]
  ELSE IF summary = "raise"
    THEN [raised |-> FALSE, value |-> ErrorDict(query, "generate_research_report")]
  ELSE [raised |-> FALSE,
        value |-> [status |-> "success", query |-> query,
                   search_results |-> "search_results", analysis |-> "analysis_results",
                   summary |-> "summary_results", type |-> "quick_research"]]

\* ResearchOrchestrator.create_literature_review: search, then the review
create_literature_review(topic, focus_area, search, review) ==
  IF search = "raise"
    THEN [raised |-> FALSE,
          value |-> [status |-> "error", topic |-> topic,
                     error |-> "execute_comprehensive_search", result |-> "None"]]
  ELSE IF review = "raise"
    THEN [raised |-> FALSE,
          value |-> [status |-> "error", topic |-> topic,
                     error |-> "create_literature_review", result |-> "None"]]
  ELSE [raised |-> FALSE,
        value |-> [status |-> "success", topic |-> topic, focus_area |-> focus_area,
                   review |-> "review", type |-> "literature_review"]]

\* the crew entry points that leave the store alone
QuickSearch ==
  /\ calls < MaxCalls
  /\ \E query \in Requests, search \in StepOutcomes :
       LET r == quick_search(query, search)
       IN last' = [name |-> "quick_search", text |-> query, steps |-> <<search>>,
                   raised |-> r.raised, value |-> r.value]
  /\ calls' = calls + 1
  /\ UNCHANGED stale
  /\ before' = db
  /\ UNCHANGED <<client, db, collections, toolCollections, searchToolCollections,
                 existing, wfvars, axvars>>

ExecuteResearch ==
  /\ calls < MaxCalls
  /\ \E query \in Requests, kickoff \in StepOutcomes :
       LET r == execute_research(query, kickoff)
       IN last' = [name |-> "execute_research", text |-> query, steps |-> <<kickoff>>,
                   raised |-> r.raised, value |-> r.value]
  /\ calls' = calls + 1
  /\ UNCHANGED stale
  /\ before' = db
  /\ UNCHANGED <<client, db, collections, toolCollections, searchToolCollections,
                 existing, wfvars, axvars>>

ExecuteQuickResearch ==
  /\ calls < MaxCalls
  /\ \E query \in Requests, search \in StepOutcomes, analysis \in StepOutcomes,
        summary \in StepOutcomes :
       LET r == execute_quick_research(query, search, analysis, summary)
       IN last' = [name |-> "execute_quick_research", text |-> query,
                   steps |-> <<search, analysis, summary>>,
                   raised |-> r.raised, value |-> r.value]
  /\ calls' = calls + 1
  /\ UNCHANGED stale
  /\ before' = db
  /\ UNCHANGED <<client, db, collections, toolCollections, searchToolCollections,
                 existing, wfvars, axvars>>

CreateLiteratureReview ==
  /\ calls < MaxCalls
  /\ \E topic \in Requests, search \in StepOutcomes, review \in StepOutcomes :
       LET r == create_literature_review(topic, "", search, review)
       IN last' = [name |-> "create_literature_review", text |-> topic,
                   steps |-> <<search, review>>,
                   raised |-> r.raised, value |-> r.value]
  /\ calls' = calls + 1
  /\ UNCHANGED stale
  /\ before' = db
  /\ UNCHANGED <<client, db, collections, toolCollections, searchToolCollections,
                 existing, wfvars, axvars>>

\* client.delete_collection(name): d without the collection
delete_collection(d, name) ==
  IF DOMAIN d \ {name} = {} THEN <<>>
  ELSE [n \in DOMAIN d \ {name} |-> d[n]]

\* ChromaMemory.reset_collection: [raised, value, deleted, db, collections].
\* A delete that raises (no such collection, or the client failing) is passed
\* over; get_or_create_collection returns None without raising when it fails.
reset_collection(d, cache, name, deleteOk, clientOk) ==
  LET deleted == deleteOk /\ name \in DOMAIN d
      d1 == IF deleted THEN delete_collection(d, name) ELSE d
      g == get_or_create_collection(d1, cache \ {name}, name, clientOk)
  IN [raised |-> FALSE, value |-> TRUE, deleted |-> deleted,
      db |-> g.db, collections |-> g.collections]

\* reset_collection is called on the orchestrator's ChromaMemory; the handles
\* the tools' instances cached for a deleted collection no longer work
ResetCollection ==
  /\ calls < MaxCalls
  /\ \E name \in CollectionNames, deleteOk \in BOOLEAN, fault \in {"none", "client"} :
       LET r == reset_collection(db, collections, name, deleteOk, fault # "client")
       IN /\ db' = r.db
          /\ collections' = r.collections
          /\ stale' = IF r.deleted
                        THEN stale
                             \cup (IF name \in toolCollections
                                     THEN {<<"memory_store", name>>} ELSE {})
                             \cup (IF name \in searchToolCollections
                                     THEN {<<"memory_search", name>>} ELSE {})
                      ELSE stale
          /\ last' = [name |-> "reset_collection", collection |-> name,
                      deleteOk |-> deleteOk, fault |-> fault, raised |-> r.raised,
                      value |-> r.value]
  /\ calls' = 1 + calls
  /\ before' = db
  /\ UNCHANGED <<client, toolCollections, searchToolCollections, existing, wfvars, axvars>>

NextStore ==
  \/ ResetCollection
  \/ QuickSearch
  \/ ExecuteResearch
  \/ ExecuteQuickResearch
  \/ CreateLiteratureReview
  \/ GetOrCreateCollection
  \/ MemorySearchTool
  \/ StorePapers
  \/ SearchPapers
  \/ ExecuteComprehensiveResearch
  \/ MemoryStoreTool

(* ------------------------- arXiv client actions ------------------------ *)
MaxSearches == 3
MaxTime == 7

\* ArxivAPI.__init__: delay_seconds = 3.0
DelaySeconds == 3

\* ArxivAPI.__init__ line 21: last_request_time of an instance just made, the
\* one the tool function reads and then drops with the instance
NewInstanceTime == 0

Callers == {"a", "b"}

\* the ways to an outbound arXiv search: search_papers of a shared ArxivAPI
\* instance, the search_arxiv_papers tool function (a new ArxivAPI per call),
\* and the search_arxiv tool of research_tools.py (arxiv.Client directly)
Entries == {"client", "tool", "search_arxiv"}

InFlight == { c \in Callers : callerPc[c] # "idle" }

\* the clock is past the first interval: time.time() counts from 1970
ArxivInit ==
  /\ now = DelaySeconds
  /\ last_request_time = NewInstanceTime
  /\ callerPc = [c \in Callers |-> "idle"]
  /\ entry = [c \in Callers |-> "none"]
  /\ seen = [c \in Callers |-> 0]
  /\ wake = [c \in Callers |-> 0]
  /\ outbound = <<>>

\* a caller starts a search; the tool function constructs its own ArxivAPI
BeginSearch(c) ==
  /\ callerPc[c] = "idle"
  /\ Len(outbound) + Cardinality(InFlight) < MaxSearches
  /\ \E e \in Entries :
       /\ entry' = [entry EXCEPT ![c] = e]
       /\ callerPc' = [callerPc EXCEPT ![c] = IF e = "search_arxiv" THEN "request"
                                                ELSE "rate_limit"]
  /\ UNCHANGED <<now, last_request_time, seen, wake, outbound, wfvars, stvars>>

\* a sleep that does not wait
sleep_time_None(time_since_last) == 0

\* _rate_limit line 29
sleep_time(time_since_last) == DelaySeconds - time_since_last

\* _rate_limit lines 25-30: read the clock and last_request_time, sleep if
\* the interval has not passed
RateLimit(c) ==
  /\ callerPc[c] = "rate_limit"
  /\ LET read == IF entry[c] = "client" THEN last_request_time ELSE NewInstanceTime
         time_since_last == now - read
     IN /\ seen' = [seen EXCEPT ![c] = read]
        /\ IF time_since_last < DelaySeconds
             THEN /\ wake' = [wake EXCEPT ![c] = now + sleep_time(time_since_last)]
                  /\ callerPc' = [callerPc EXCEPT ![c] = "sleep"]
             ELSE /\ wake' = [wake EXCEPT ![c] = now]
                  /\ callerPc' = [callerPc EXCEPT ![c] = "request"]
  /\ UNCHANGED <<now, last_request_time, entry, outbound, wfvars, stvars>>

\* time.sleep returns once the time asked for has passed
Wake(c) ==
  /\ callerPc[c] = "sleep"
  /\ now >= wake[c]
  /\ callerPc' = [callerPc EXCEPT ![c] = "request"]
  /\ UNCHANGED <<now, last_request_time, entry, seen, wake, outbound, wfvars, stvars>>

\* _rate_limit line 32 and the request that follows it
Request(c) ==
  /\ callerPc[c] = "request"
  /\ last_request_time' = IF entry[c] = "client" THEN now ELSE last_request_time
  /\ outbound' = Append(outbound, [caller |-> c, entry |-> entry[c], time |-> now,
                                    seen |-> seen[c]])
  /\ callerPc' = [callerPc EXCEPT ![c] = "idle"]
  /\ entry' = [entry EXCEPT ![c] = "none"]
  /\ seen' = [seen EXCEPT ![c] = 0]
  /\ wake' = [wake EXCEPT ![c] = 0]
  /\ UNCHANGED <<now, wfvars, stvars>>

\* a second passes
Tick ==
  /\ now < MaxTime
  /\ now' = now + 1
  /\ UNCHANGED <<last_request_time, callerPc, entry, seen, wake, outbound,
                 wfvars, stvars>>

NextArxiv ==
  \/ \E c \in Callers : BeginSearch(c)
  \/ \E c \in Callers : RateLimit(c)
  \/ \E c \in Callers : Wake(c)
  \/ \E c \in Callers : Request(c)
  \/ Tick

(* ------------------------------ actions ------------------------------- *)
WfInit ==
  /\ pc = "idle"
  /\ reqNo = 0
  /\ request = ""
  /\ response = <<>>
  /\ workflow = <<>>
  /\ idx = 1
  /\ results = <<>>
  /\ running = "none"
  /\ data = NoData
  /\ context = NoContext
  /\ sources = NoSources
  /\ llmOut = EmptyText
  /\ exc = NoExc
  /\ ret = NoRet
  /\ events = <<>>
  /\ llmCalls = 0
  /\ handed = <<>>
  /\ agents = {}
  /\ mem = [c \in MemCollections |-> <<>>]
  /\ memBefore = mem

\* the orchestrator after construction; it makes no use of ChromaMemory
Init == WfInit /\ StoreInit /\ existing = "ignore" /\ client = "persistent" /\ ArxivInit

\* a ChromaMemory after construction, with either library behaviour
InitStore == WfInit /\ StoreInit /\ ArxivInit

\* the arXiv client after construction
InitArxiv == Init

\* a run that goes on with the list of the request before
NewResults_KeepsEarlier(earlier) == earlier

\* execute_workflow line 102: results = [], whatever an earlier request left
NewResults(earlier) == <<>>

\* research(query) is called: main.py:20-24, supervisor.py:96-102
Research ==
  /\ pc \in {"idle", "done"}
  /\ UNCHANGED <<stvars, axvars>>
  /\ reqNo < MaxRequests
  /\ \E query \in Requests : request' = query
  /\ reqNo' = reqNo + 1
  /\ pc' = "plan"
  /\ response' = <<>>
  /\ workflow' = <<>>
  /\ idx' = 1
  /\ results' = NewResults(results)
  /\ running' = "none"
  /\ data' = NoData
  /\ context' = NoContext
  /\ sources' = NoSources
  /\ llmOut' = EmptyText
  /\ exc' = NoExc
  /\ ret' = NoRet
  /\ events' = <<>>
  /\ llmCalls' = 0
  /\ handed' = <<>>
  /\ memBefore' = mem
  /\ UNCHANGED <<agents, mem>>

\* plan_workflow: one completion call, then the keyword parse
PlanWorkflow ==
  /\ pc = "plan"
  /\ UNCHANGED <<stvars, axvars, memBefore>>
  /\ llmCalls' = llmCalls + 1
  /\ \/ /\ \E content \in Responses :
             /\ response' = content
             /\ workflow' = plan_workflow(content)
        /\ pc' = "loop"
        /\ UNCHANGED <<exc, events, idx, running>>
     \/ /\ Propagate("completion")
        /\ UNCHANGED <<response, workflow>>
  /\ UNCHANGED <<reqNo, request, results, data, context, sources, llmOut, ret, handed, agents, mem>>

\* one turn of the for loop: the agent for workflow[idx] is taken from its lazy
\* property (constructed on first use, which may raise) and entered
Invoke ==
  /\ pc = "loop"
  /\ UNCHANGED <<stvars, axvars, memBefore>>
  /\ idx <= Len(workflow)
  /\ LET kind == Dispatch(workflow[idx])
     IN \/ /\ agents' = agents \cup {kind}
           /\ running' = kind
           /\ events' = Append(events, Event("start", kind))
           /\ data' = ContextFor(kind, results)
           /\ handed' = IF kind = "analysis"
                          THEN Append(handed, safe_results(results)) ELSE handed
           /\ pc' = "get_context"
           /\ UNCHANGED <<exc, idx>>
        \/ /\ kind \notin agents
           /\ Propagate("__init__")
           /\ UNCHANGED <<agents, data, handed>>
  /\ context' = NoContext
  /\ sources' = NoSources
  /\ llmOut' = EmptyText
  /\ UNCHANGED <<reqNo, request, response, workflow, results, ret, llmCalls, mem>>

\* self.memory.get_context(task): no handler around the similarity search
GetContext ==
  /\ pc = "get_context"
  /\ UNCHANGED <<stvars, axvars, memBefore>>
  /\ \/ /\ \E S \in RetrieveChoices(mem[CollectionOf(running)], MaxDocs) :
             context' = get_context(Pick(mem[CollectionOf(running)], S, 1))
        /\ pc' = CASE running = "memory" -> "store"
                     [] running = "research" -> "search_arxiv"
                     [] OTHER -> "llm"
        /\ UNCHANGED <<exc, events, idx, running>>
     \/ /\ Propagate("get_context")
        /\ UNCHANGED context
  /\ UNCHANGED <<reqNo, request, response, workflow, results, data, sources, llmOut,
                 ret, llmCalls, handed, agents, mem>>

\* search_arxiv.invoke: research_tools.py:7-27 has no handler
SearchArxiv ==
  /\ pc = "search_arxiv"
  /\ UNCHANGED <<stvars, axvars, memBefore>>
  /\ \/ /\ sources' = [sources EXCEPT !.arxiv = "results"]
        /\ pc' = "search_web"
        /\ UNCHANGED <<exc, events, idx, running>>
     \/ /\ Propagate("search_arxiv")
        /\ UNCHANGED sources
  /\ UNCHANGED <<reqNo, request, response, workflow, results, data, context, llmOut,
                 ret, llmCalls, handed, agents, mem>>

\* search_web.invoke: research_tools.py:29-76 catches everything itself
SearchWeb ==
  /\ pc = "search_web"
  /\ UNCHANGED <<stvars, axvars, memBefore>>
  /\ \E outcome \in {"results", "error"} : sources' = [sources EXCEPT !.web = outcome]
  /\ pc' = "llm"
  /\ UNCHANGED <<reqNo, request, response, workflow, idx, results, running, data, context,
                 llmOut, exc, ret, events, llmCalls, handed, agents, mem>>

\* self.llm.invoke of the research, analysis and summary agents
Completion ==
  /\ pc = "llm"
  /\ UNCHANGED <<stvars, axvars, memBefore>>
  /\ llmCalls' = llmCalls + 1
  /\ \/ /\ \E n \in TextLens : llmOut' = Text(running, n)
        /\ pc' = "store"
        /\ UNCHANGED <<exc, events, idx, running>>
     \/ /\ Propagate("completion")
        /\ UNCHANGED llmOut
  /\ UNCHANGED <<reqNo, request, response, workflow, results, data, context, sources,
                 ret, handed, agents, mem>>

\* what the running agent stores, and the result it returns
StoredContent ==
  IF running = "memory" THEN QueryContent(request) ELSE CompletionContent(llmOut)

AgentResult ==
  LET task == TaskFor(running, request)
  IN CASE running = "memory" -> MemoryResult(task, context)
       [] running = "research" -> ResearchResult(task, llmOut, sources)
       [] running = "analysis" -> AnalysisResult(task, llmOut, data)
       [] running = "summary" -> SummaryResult(task, llmOut, data.safe_content)

\* self.memory.store_research(...), the agent's return and results.append(result)
StoreAndReturn ==
  /\ pc = "store"
  /\ UNCHANGED <<stvars, axvars, memBefore>>
  /\ \/ /\ mem' = [mem EXCEPT ![CollectionOf(running)] =
                      store_research(@, StoredContent,
                                     [agent |-> running, task |-> TaskFor(running, request)])]
        /\ results' = Append(results, AgentResult)
        /\ events' = Append(events, Event("return", running))
        /\ running' = "none"
        /\ idx' = idx + 1
        /\ pc' = "loop"
        /\ UNCHANGED exc
     \/ /\ Propagate("store_research")
        /\ UNCHANGED <<mem, results>>
  /\ UNCHANGED <<reqNo, request, response, workflow, data, context, sources, llmOut,
                 ret, llmCalls, handed, agents>>

\* the loop is over: execute_workflow returns and research() passes it on
ReturnCompleted ==
  /\ pc = "loop"
  /\ UNCHANGED <<stvars, axvars, memBefore>>
  /\ idx > Len(workflow)
  /\ ret' = [raised |-> FALSE, value |-> CompletedObject(request, workflow, results)]
  /\ pc' = "done"
  /\ UNCHANGED <<reqNo, request, response, workflow, idx, results, running, data, context,
                 sources, llmOut, exc, events, llmCalls, handed, agents, mem>>

\* research()'s except clause: main.py:27-35
ReturnFailed ==
  /\ pc = "raised"
  /\ UNCHANGED <<stvars, axvars, memBefore>>
  /\ ret' = [raised |-> FALSE, value |-> FailureObject(exc, request, results)]
  /\ pc' = "done"
  /\ running' = "none"
  /\ UNCHANGED <<reqNo, request, response, workflow, idx, results, data, context,
                 sources, llmOut, exc, events, llmCalls, handed, agents, mem>>

Next ==
  \/ Research
  \/ PlanWorkflow
  \/ Invoke
  \/ GetContext
  \/ SearchArxiv
  \/ SearchWeb
  \/ Completion
  \/ StoreAndReturn
  \/ ReturnCompleted
  \/ ReturnFailed

vars == <<wfvars, stvars, axvars>>

Spec == Init /\ [][Next]_vars

SpecStore == InitStore /\ [][NextStore]_vars

SpecArxiv == InitArxiv /\ [][NextArxiv]_vars

(* ----------------------------- properties ----------------------------- *)
\* plan_workflow has returned for the current request
Planned == pc \notin {"idle", "plan"} /\ exc # [site |-> "completion", agent |-> "none"]

\* the kinds a planner response names
Named(content) == { k \in Kinds : Contains(content, k) }

IsEv(e, ev) == e.ev = ev
StartEvents(evs) == SelectSeq(evs, LAMBDA e : IsEv(e, "start"))
ReturnEvents(evs) == SelectSeq(evs, LAMBDA e : IsEv(e, "return"))
AgentsOf(evs) == [i \in 1..Len(evs) |-> evs[i].agent]

Rank(kind) ==
  CASE kind = "memory" -> 1
    [] kind = "research" -> 2
    [] kind = "analysis" -> 3
    [] kind = "summary" -> 4
    [] OTHER -> 0

\* C1: when a step of the workflow has raised, research() still returns (it does
\* not raise): the object has status "failed", its error is the raised message,
\* and it has no results entry at all.
C1_FailedRequestShape ==
  (pc = "done" /\ exc # NoExc) =>
    /\ ~ret.raised
    /\ ret.value.status = "failed"
    /\ "error" \in DOMAIN ret.value /\ ret.value.error = exc
    /\ "results" \notin DOMAIN ret.value

\* the second agent of a 3-stage plan failed its completion call
C1_Witness ==
  /\ pc = "done"
  /\ workflow = <<"memory", "research", "summary">>
  /\ exc = [site |-> "completion", agent |-> "research"]
  /\ Len(results) = 1
  /\ ret.value.status = "failed"

\* C2: a completed return carries as many results as its workflow has stages,
\* and results[i] was produced by the agent kind workflow[i] names.
C2_CompletedResultsMatchWorkflow ==
  ret.value.status = "completed" =>
    /\ Len(ret.value.results) = Len(ret.value.workflow)
    /\ \A i \in 1..Len(ret.value.workflow) :
         /\ i <= Len(ret.value.results)
         /\ ret.value.results[i].agent = ret.value.workflow[i]
         /\ AgentsOf(ReturnEvents(events))[i] = ret.value.workflow[i]

C2_Witness ==
  /\ ret.value.status = "completed"
  /\ Len(ret.value.workflow) = 4
  /\ Len(ret.value.results) = 4

\* C3: the previous_results handed to analysis has exactly one entry per agent
\* that returned before analysis was entered, in that order, and no entry comes
\* from the summary agent or carries its output.
C3_AnalysisSeesOnlyEarlierAgents ==
  \A k \in 1..Len(handed) :
    LET p == CHOOSE i \in 1..Len(events) : events[i] = Event("start", "analysis")
        earlier == AgentsOf(ReturnEvents(SubSeq(events, 1, p - 1)))
    IN /\ \E i \in 1..Len(events) : events[i] = Event("start", "analysis")
       /\ Len(handed[k]) = Len(earlier)
       /\ \A i \in 1..Len(earlier) :
            /\ i <= Len(handed[k])
            /\ handed[k][i].agent = earlier[i]
            /\ handed[k][i].summary.by = earlier[i]
            /\ handed[k][i].agent # "summary"
            /\ handed[k][i].summary.by # "summary"

C3_Witness ==
  /\ Len(handed) = 1
  /\ Len(handed[1]) = 2
  /\ running = "analysis"

\* C4: the agents are entered one after another in the planned order: what has
\* been entered so far is a prefix of the plan, an agent is entered only after
\* the one before it has returned, and a completed run has entered each planned
\* stage exactly once.
C4_SequentialInPlannedOrder ==
  LET starts == AgentsOf(StartEvents(events))
  IN /\ Len(starts) <= Len(workflow)
     /\ starts = SubSeq(workflow, 1, Len(starts))
     /\ \A i \in 1..Len(events) :
          events[i].ev = "start" =>
            \/ i = Len(events)
            \/ /\ events[i + 1].ev \in {"return", "raise"}
               /\ events[i + 1].agent = events[i].agent
     /\ \A i \in 1..Len(events) :
          (events[i].ev = "return" \/ (events[i].ev = "raise" /\ events[i].agent # "none")) =>
            /\ i > 1
            /\ events[i - 1] = Event("start", events[i].agent)
     /\ ret.value.status = "completed" => starts = workflow

C4_Witness ==
  /\ ret.value.status = "completed"
  /\ Len(workflow) = 4
  /\ Len(events) = 8

\* C5: once a step of the request has raised, nothing more is run for that
\* request: no agent is entered or returns, no completion call is made, no
\* result is added and no document is stored.
C5_NothingRunsAfterRaise ==
  [][(exc # NoExc /\ reqNo' = reqNo) =>
       /\ events' = events
       /\ llmCalls' = llmCalls
       /\ results' = results
       /\ mem' = mem
       /\ idx' = idx]_vars

\* the first stage raised and the three later ones were never entered
C5_Witness ==
  /\ pc = "done"
  /\ exc.agent = "memory"
  /\ Len(workflow) = 4
  /\ Len(StartEvents(events)) = 1
  /\ ret.value.status = "failed"

C7_PlanShape ==
  Planned =>
    /\ workflow # <<>>
    /\ \A i \in 1..Len(workflow) : workflow[i] \in Kinds
    /\ \A i, j \in 1..Len(workflow) : i < j => Rank(workflow[i]) < Rank(workflow[j])
    /\ Named(response) = {} => workflow = <<"memory", "research", "analysis", "summary">>

C7_Witness ==
  /\ Planned
  /\ pc = "loop"
  /\ response = <<"ok">>
  /\ workflow = <<"memory", "research", "analysis", "summary">>

\* the records of collection name in d that carry id
WithId(d, name, id) == { i \in 1..Len(Docs(d, name)) : Docs(d, name)[i].id = id }

\* C8: after a document with id X was stored and a document with the same id X
\* and other content is stored by a call that met no outside failure, the
\* collection holds exactly one document with id X, with the content of the
\* later call.
C8_RestoreOverwrites ==
  (/\ last.name = "store_papers"
   /\ last.fault = "none"
   /\ Len(last.papers) = 1
   /\ last.papers[1].dict
   /\ \E i \in WithId(before, last.collection, paper_id(last.papers[1])) :
        Docs(before, last.collection)[i].document # doc_text(last.papers[1]))
  =>
    /\ Cardinality(WithId(db, last.collection, paper_id(last.papers[1]))) = 1
    /\ \A i \in WithId(db, last.collection, paper_id(last.papers[1])) :
         Docs(db, last.collection)[i].document = doc_text(last.papers[1])

\* C9: a query never raises to its caller: search_papers returns a list, the
\* empty one when the collection is empty or the index fails, and get_context
\* of an agent never lets a failing similarity search escape.
C9_QueryNeverRaises ==
  /\ last.name = "search_papers" =>
       /\ ~last.raised
       /\ (Docs(before, last.collection) = <<>> \/ last.fault = "index") => last.value = <<>>
  /\ exc.site # "get_context"

\* C10: store_papers never raises and is all-or-nothing: it gives True or
\* False; after False the collection's documents are what they were; after
\* True every document of the batch is in the collection.
C10_StorePapersAllOrNothing ==
  last.name = "store_papers" =>
    /\ ~last.raised
    /\ last.value \in BOOLEAN
    /\ last.value = FALSE => Docs(db, last.collection) = Docs(before, last.collection)
    /\ last.value = TRUE =>
         \A k \in 1..Len(last.papers) :
           \E i \in 1..Len(Docs(db, last.collection)) :
             Docs(db, last.collection)[i] = RecordOf(last.papers[k])

\* C11: search_papers with n_results = k returns at most k records; the i-th
\* record is the i-th hit of the index, a document the collection holds, with
\* similarity_score = 1 - distance, so of two records the one with the smaller
\* distance has the higher score.
C11_SearchResultsAndScores ==
  last.name = "search_papers" =>
    /\ Len(last.value) <= last.n_results
    /\ Len(last.value) \in {0, Len(last.hits)}
    /\ \A i \in 1..Len(last.value) :
         /\ last.value[i].id = last.hits[i].id
         /\ last.value[i].similarity_score = One - last.hits[i].distance
         /\ \E k \in 1..Len(Docs(db, last.collection)) :
              /\ Docs(db, last.collection)[k].id = last.value[i].id
              /\ Docs(db, last.collection)[k].document.title = last.value[i].title
              /\ Docs(db, last.collection)[k].document.summary = last.value[i].summary
    /\ \A i, j \in 1..Len(last.value) :
         last.hits[i].distance < last.hits[j].distance
           => last.value[i].similarity_score > last.value[j].similarity_score

\* two stored papers come back, the second one first, at different distances
C11_Witness ==
  /\ last.name = "search_papers"
  /\ Len(last.value) = 2
  /\ last.value[1].id = Docs(db, last.collection)[2].id
  /\ last.hits[1].distance < last.hits[2].distance
  /\ last.hits[2].distance > One

\* C12: every execute of an agent makes exactly one completion call before it
\* returns: between two stages the request has made one call for the plan and
\* one for each result gathered.
C12_OneCompletionPerExecute ==
  (pc = "loop" /\ exc = NoExc) => llmCalls = 1 + Len(results)

\* C13: when the store write of an agent raises, the agent's result is still
\* among the results and the request does not end failed.
C13_StoreWriteFailureIgnored ==
  (pc = "done" /\ exc.site = "store_research") =>
    /\ ret.value.status = "completed"
    /\ \E i \in 1..Len(results) : results[i].agent = exc.agent

\* C14: when the context retrieval of an agent raises, the request does not
\* end with status "failed".
C14_ContextFailureDegrades ==
  (pc = "done" /\ exc.site = "get_context") => ret.value.status # "failed"

\* C15: a memory result always has a non-empty context_analysis; it is the
\* "no specific context" narrative with has_context false when nothing was
\* retrieved, and has_context is true exactly when a document was retrieved.
C15_MemoryNarrative ==
  /\ \A i \in 1..Len(results) :
       results[i].agent = "memory" =>
         /\ results[i].context_analysis.len > 0
         /\ results[i].has_context \in BOOLEAN
         /\ ~results[i].has_context =>
              results[i].context_analysis.len
                = NoContextNarrativeLen + TaskLen(results[i].task)
  /\ (pc = "loop" /\ results # <<>> /\ results[Len(results)].agent = "memory") =>
       (results[Len(results)].has_context <=> context.parts # <<>>)

\* a later request's memory stage retrieved the earlier request's query
C15_Witness ==
  /\ pc = "loop"
  /\ reqNo = 2
  /\ Len(results) = 1
  /\ results[1].agent = "memory"
  /\ results[1].has_context
  /\ context.parts # <<>>

\* C16: any two outbound search calls of one sequential caller, through
\* whichever entry point, are at least the minimum interval apart.
C16_SequentialCallsThrottled ==
  \A i, j \in 1..Len(outbound) :
    (i < j /\ outbound[i].caller = outbound[j].caller)
      => outbound[j].time - outbound[i].time >= DelaySeconds

\* C17: the throttle of a client is its one last_request_time, read and
\* written without a lock: two outbound calls through the same client are less
\* than the minimum interval apart only when they come from two callers and
\* the later one read last_request_time before the earlier one wrote it.
C17_UnsynchronizedThrottle ==
  \A i, j \in 1..Len(outbound) :
    (/\ i < j
     /\ outbound[i].entry = "client"
     /\ outbound[j].entry = "client"
     /\ outbound[j].time - outbound[i].time < DelaySeconds)
      => /\ outbound[i].caller # outbound[j].caller
         /\ outbound[j].seen < outbound[i].time

\* after a first call, two callers read the same last_request_time, both sleep
\* out the interval and both issue their call in the same second
C17_Witness ==
  /\ Len(outbound) = 3
  /\ \A i \in 1..3 : outbound[i].entry = "client"
  /\ outbound[2].caller # outbound[3].caller
  /\ outbound[2].seen = outbound[1].time
  /\ outbound[3].seen = outbound[1].time
  /\ outbound[2].time = outbound[3].time
  /\ outbound[2].time >= outbound[1].time + DelaySeconds

\* C18: a workflow run that completes successfully adds exactly one session
\* document to the sessions collection, a run that fails adds none, and no
\* operation changes or removes a session document already stored. The runs
\* are the crew's comprehensive workflow and the supervisor's research().
C18_OneSessionPerCompletedRun ==
  /\ (pc = "done" /\ ret.value.status = "completed") =>
       Docs(db, SessionsCollection) # <<>>
  /\ \A i \in 1..Len(Docs(before, SessionsCollection)) :
       /\ i <= Len(Docs(db, SessionsCollection))
       /\ Docs(db, SessionsCollection)[i] = Docs(before, SessionsCollection)[i]
  /\ last.name = "execute_comprehensive_research" =>
       Len(Docs(db, SessionsCollection))
         = Len(Docs(before, SessionsCollection))
           + (IF last.value.status = "success" THEN 1 ELSE 0)

\* C19: the memory_store tool never raises: for text that is not JSON, and for
\* JSON that is not a list, it returns the error text for that case and leaves
\* every collection as it was; it reports success only when store_papers
\* returned True.
C19_MemoryStoreToolErrors ==
  last.name = "memory_store" =>
    /\ ~last.raised
    /\ last.input.kind = "invalid" =>
         /\ last.value.msg = "Error: Invalid JSON format for papers_json"
         /\ db = before
    /\ last.input.kind = "object" =>
         /\ last.value.msg = "Error: papers_json must be a JSON list of paper objects"
         /\ db = before
    /\ last.value.msg = "Successfully stored" => last.stored = "True"
    /\ last.stored = "False" => last.value.msg = "Failed to store papers in memory"

\* with papers stored, the tool is handed JSON that is not a list
C19_Witness ==
  /\ last.name = "memory_store"
  /\ last.input.kind = "object"
  /\ \E name \in CollectionNames : Docs(db, name) # <<>>
  /\ last.value.msg = "Error: papers_json must be a JSON list of paper objects"

\* C20: get_or_create_collection is idempotent: nothing exists before the first
\* call for a name, which creates the collection; a later call for the name
\* gives the cached collection and changes nothing; no call changes the
\* documents of any collection; and the store always has a client, the
\* in-memory one when the persistent one could not be opened.
C20_GetOrCreateIdempotent ==
  /\ client \in {"persistent", "memory"}
  /\ calls = 0 => DOMAIN db = {}
  /\ last.name = "get_or_create_collection" =>
       /\ \A n \in CollectionNames \cup {SessionsCollection} :
            Docs(db, n) = Docs(before, n)
       /\ last.cached => (last.value /\ db = before)
       /\ (~last.cached /\ last.fault # "client") =>
            /\ last.value
            /\ last.collection \in DOMAIN db
            /\ last.collection \in collections
       /\ ~last.value => db = before

\* the store fell back to the in-memory client, papers were stored in a
\* collection and the collection is obtained again while the client fails
C20_Witness ==
  /\ client = "memory"
  /\ last.name = "get_or_create_collection"
  /\ last.cached
  /\ last.fault = "client"
  /\ last.value
  /\ Docs(db, last.collection) # <<>>

\* the records are documents of the collection
AllStored(papers, recs) ==
  \A i \in 1..Len(papers) :
    \E k \in 1..Len(recs) :
      /\ recs[k].id = papers[i].id
      /\ recs[k].document.title = papers[i].title
      /\ recs[k].document.summary = papers[i].summary

\* C21: once store_papers has returned True for a non-empty batch the
\* collection holds a document, and a search with n_results >= 1 that meets no
\* outside failure (the index failing, or the collection of the tool's cached
\* handle deleted) on a collection that holds a document returns a non-empty
\* list of stored documents; the same through the memory_store and
\* memory_search tools, each with its own ChromaMemory.
C21_StoredPapersAreFound ==
  /\ (last.name = "store_papers" /\ last.papers # <<>> /\ last.value = TRUE) =>
       Docs(db, last.collection) # <<>>
  /\ (/\ last.name = "memory_store"
      /\ last.input.papers # <<>>
      /\ last.value.msg = "Successfully stored") =>
       Docs(db, last.collection) # <<>>
  /\ (/\ last.name = "search_papers"
      /\ last.fault = "none"
      /\ Docs(before, last.collection) # <<>>) =>
       /\ last.value # <<>>
       /\ AllStored(last.value, Docs(db, last.collection))
  /\ (/\ last.name = "memory_search"
      /\ last.fault = "none"
      /\ ~last.gone
      /\ Docs(before, last.collection) # <<>>) =>
       /\ last.value.msg = "Found similar papers in memory"
       /\ last.value.n >= 1
       /\ AllStored(last.papers, Docs(db, last.collection))

\* papers went in through the memory_store tool and are found through the
\* memory_search tool, the orchestrator's own ChromaMemory untouched
C21_Witness ==
  /\ last.name = "memory_search"
  /\ last.value.n >= 1
  /\ last.collection \in toolCollections
  /\ last.collection \in searchToolCollections
  /\ collections = {}

\* C22: the results of a request hold one record per agent that returned in
\* this request, of the planned kind and made for this request's task, and the
\* context handed to analysis and to summary is built from these records
\* alone, whatever earlier requests left behind.
C22_NoCrossRequestState ==
  /\ Len(results) = Len(ReturnEvents(events))
  /\ Planned =>
       /\ Len(results) <= Len(workflow)
       /\ \A i \in 1..Len(results) :
            /\ results[i].agent = workflow[i]
            /\ results[i].task = TaskFor(results[i].agent, request)
  /\ running = "analysis" => data.previous_results = safe_results(results)
  /\ running = "summary" =>
       /\ data.safe_content = safe_content(results)
       /\ data.safe_content.total_agents = Len(ReturnEvents(events))

\* a second request for another text completes with four results while the
\* stores hold the documents of the first
C22_Witness ==
  /\ reqNo = 2
  /\ pc = "done"
  /\ ret.value.status = "completed"
  /\ Len(ret.value.results) = 4
  /\ Len(mem["research_memory"]) = 2
  /\ \E i \in 1..Len(mem["context_memory"]) :
       mem["context_memory"][i].page_content.task # request

\* C23: a crew entry point never raises; it returns status 'success' when no
\* step raised and otherwise status 'error' with the error text and result
\* None, and its reply has the error key exactly when the status is 'error'.
CrewEntryPoints ==
  {"quick_search", "execute_quick_research", "execute_research",
   "execute_comprehensive_research", "create_literature_review"}

StepsOfLast ==
  IF last.name = "execute_comprehensive_research" THEN <<last.kickoff>> ELSE last.steps

C23_CrewEntryPointsNeverRaise ==
  last.name \in CrewEntryPoints =>
    /\ ~last.raised
    /\ last.value.status \in {"success", "error"}
    /\ last.value.status = "success" <=>
         \A i \in 1..Len(StepsOfLast) : StepsOfLast[i] # "raise"
    /\ "error" \in DOMAIN last.value <=> last.value.status = "error"
    /\ last.value.status = "error" =>
         /\ last.value.result = "None"
         /\ last.value.error # ""

\* a quick research whose analysis step raised after the search succeeded
C23_Witness ==
  /\ last.name = "execute_quick_research"
  /\ last.steps = <<"ok", "raise", "ok">>
  /\ last.value.status = "error"
  /\ last.value.error = "analyze_papers_content"

\* C24: what is threaded forward from prior results is bounded and
\* allowlisted: every previous_results entry handed to analysis has just the
\* fields agent and summary, the summary at most 200 characters long; every
\* findings_summary excerpt handed to summary carries at most 200 characters
\* of the prior text; and the context holds no full result record.
SafeContentKeys ==
  {"research_count", "analysis_count", "memory_count", "total_agents", "findings_summary"}

C24_ThreadedTextBounded ==
  /\ running = "analysis" =>
       /\ DOMAIN data = {"given", "previous_results"}
       /\ Len(data.previous_results) = Len(results)
       /\ \A i \in 1..Len(data.previous_results) :
            /\ DOMAIN data.previous_results[i] = {"agent", "summary"}
            /\ data.previous_results[i].summary.len <= 200
  /\ running = "summary" =>
       /\ DOMAIN data = {"given", "safe_content"}
       /\ DOMAIN data.safe_content = SafeContentKeys
       /\ \A i \in 1..Len(data.safe_content.findings_summary) :
            /\ DOMAIN data.safe_content.findings_summary[i] = {"label", "excerpt"}
            /\ data.safe_content.findings_summary[i].excerpt.len <= 200

\* analysis is handed the summary of findings that were longer than the cap,
\* cut to the cap
C24_Witness ==
  /\ running = "analysis"
  /\ \E i \in 1..Len(results) :
       /\ results[i].agent = "research"
       /\ results[i].findings.len > 200
       /\ results[i].sources # NoSources
       /\ data.previous_results[i].summary.len = 200

\* C25: in final-report mode the summary's projection spans all results of
\* the request so far: total_agents is the number of agents that returned
\* before summary, the three counts are the numbers of returned agents of
\* each kind, and findings_summary has one excerpt per prior research and
\* per prior analysis result, in their order.
Returned(kind) ==
  Len(SelectSeq(events, LAMBDA e : IsEv(e, "return") /\ e.agent = kind))

ExcerptKinds ==
  SelectSeq(AgentsOf(ReturnEvents(events)), LAMBDA k : k \in {"research", "analysis"})

C25_FinalReportCounts ==
  running = "summary" =>
    LET sc == data.safe_content
    IN /\ sc.total_agents = Len(ReturnEvents(events))
       /\ sc.total_agents = Len(results)
       /\ sc.research_count = Returned("research")
       /\ sc.analysis_count = Returned("analysis")
       /\ sc.memory_count = Returned("memory")
       /\ Len(sc.findings_summary) = Len(ExcerptKinds)
       /\ \A i \in 1..Len(ExcerptKinds) :
            sc.findings_summary[i].label =
              IF ExcerptKinds[i] = "research" THEN "Research: " ELSE "Analysis: "

\* summary runs after memory, research and analysis returned
C25_Witness ==
  /\ running = "summary"
  /\ data.safe_content.total_agents = 3
  /\ data.safe_content.research_count = 1
  /\ data.safe_content.analysis_count = 1
  /\ Len(data.safe_content.findings_summary) = 2

\* C26: each agent reads and writes its own collection only. What an agent
\* retrieved comes from its own collection; since the request began each
\* collection has grown by one document per return of its agent, written by
\* that agent, with the documents it held kept as they were; so after a
\* completed workflow of the four agents each collection has grown by one.
AgentOf(c) ==
  CASE c = "context_memory" -> "memory"
    [] c = "research_memory" -> "research"
    [] c = "analysis_memory" -> "analysis"
    [] c = "summary_memory" -> "summary"

OwnContent(kind, content) ==
  IF kind = "memory" THEN content.kind = "query"
  ELSE content.kind = "completion" /\ content.by = kind

C26_OwnCollectionOnly ==
  /\ \A c \in MemCollections :
       /\ Len(mem[c]) = Len(memBefore[c]) + Returned(AgentOf(c))
       /\ SubSeq(mem[c], 1, Len(memBefore[c])) = memBefore[c]
       /\ \A i \in 1..Len(mem[c]) :
            /\ mem[c][i].metadata.agent = AgentOf(c)
            /\ OwnContent(AgentOf(c), mem[c][i].page_content)
  /\ (running # "none" /\ context # NoContext) =>
       \A i \in 1..Len(context.parts) : OwnContent(running, context.parts[i])
  /\ (pc = "done" /\ ret.value.status = "completed" /\ Len(workflow) = 4) =>
       \A c \in MemCollections : Len(mem[c]) = Len(memBefore[c]) + 1

\* a second four-stage request completes over collections that held one
\* document each
C26_Witness ==
  /\ pc = "done"
  /\ ret.value.status = "completed"
  /\ Len(workflow) = 4
  /\ \A c \in MemCollections : Len(memBefore[c]) = 1 /\ Len(mem[c]) = 2

\* C27: a retrieval error during the research stage ends the request: when
\* the paper search raised, research() returns status "failed" with that
\* error, and no research result is built on a web search that failed.
C27_RetrievalErrorIsTerminal ==
  /\ (pc = "done" /\ exc.site = "search_arxiv") =>
       /\ ret.value.status = "failed"
       /\ ret.value.error = exc
  /\ (pc \in {"llm", "store"} /\ running = "research") => sources.web # "error"
  /\ \A i \in 1..Len(results) :
       results[i].agent = "research" => results[i].sources.web # "error"

\* C28: store_papers stores a paper under its external id when that is not
\* empty and otherwise under a hash of its content, so two papers without an
\* external id get the same id only if their title and summary are the same.
C28_IdFromContent ==
  last.name = "store_papers" =>
    \A i, j \in 1..Len(last.papers) :
      LET p == last.papers[i]
          q == last.papers[j]
      IN /\ (p.dict /\ p.id # "") => paper_id(p) = p.id
         /\ (p.dict /\ q.dict /\ p.id = "" /\ q.id = "" /\ paper_id(p) = paper_id(q)) =>
              (p.title = q.title /\ p.summary = q.summary)

\* C29: whenever reset_collection(name) returns True the collection exists
\* and holds no document, the instance has a cached handle for it, and every
\* other collection is as it was before the call.
C29_ResetLeavesEmptyCollection ==
  (last.name = "reset_collection" /\ last.value = TRUE) =>
    /\ last.collection \in DOMAIN db
    /\ Docs(db, last.collection) = <<>>
    /\ last.collection \in collections
    /\ \A other \in (DOMAIN db \cup DOMAIN before) \ {last.collection} :
         /\ other \in DOMAIN db
         /\ other \in DOMAIN before
         /\ db[other] = before[other]

\* C30: over the memory agent's executes on context_memory, has_context is
\* false exactly for an execute that found the collection empty; an execute
\* that returned has stored one "Query: <task>" document, so every execute
\* after one that returned has has_context true, whatever its task.
C30_HasContextAfterFirstExecute ==
  \A i \in 1..Len(results) :
    results[i].agent = "memory" =>
      /\ results[i].has_context <=> memBefore["context_memory"] # <<>>
      /\ Len(mem["context_memory"]) = Len(memBefore["context_memory"]) + 1
      /\ mem["context_memory"][Len(mem["context_memory"])].page_content
           = QueryContent(results[i].task)
      /\ (\E k \in 1..Len(memBefore["context_memory"]) :
            memBefore["context_memory"][k].page_content.kind = "query")
           => results[i].has_context

\* the memory agent's second execute, for another task than the first, has
\* context
C30_Witness ==
  /\ reqNo = 2
  /\ Len(results) >= 1
  /\ results[1].agent = "memory"
  /\ results[1].has_context
  /\ Len(memBefore["context_memory"]) = 1
  /\ memBefore["context_memory"][1].page_content.task # results[1].task

====
